---- MODULE Spec2Model ----
(***************************************************************************)
(* GenericFormWithSearchResults (src/search.js): the search-trigger flow,  *)
(* the single pending-request slot, the results collection, the popup, the *)
(* collapse class and the form's error list.                               *)
(*                                                                         *)
(* JavaScript runs one task at a time.  A task (an input event, a network  *)
(* completion) runs to its end, then the microtask queue is drained: the   *)
(* continuations of the awaits whose promises have settled run in the      *)
(* order in which they were queued.  Several triggers may be fired in one  *)
(* task, so a trigger can see continuations that are queued but have not   *)
(* run yet; nothing but microtasks runs once the draining has begun.       *)
(***************************************************************************)
EXTENDS Integers, Sequences, FiniteSets

\* Bounds of the model.
MaxRequests == 3      \* fetches issued in one run
MaxMicrotasks == 2    \* continuations queued at one time

\* Input values of the search field, raw rows a fetch may deliver, failure texts.
Values == {"", "a"}
Data == {<< >>, <<"x">>, <<"y">>}
Messages == {"boom"}

\* line 332: the group of the fetch errors in the form's error list
FetchErrorGroup == "fetchResultsForCriteria::fetchDataError"
\* line 366: new PromiseRejectedError('Request is cancelled')
CancelMessage == "Request is cancelled"
\* an entry another part of the form may have put in its error list
OtherError == [group |-> "validation", message |-> "required"]

VARIABLES
    options,                  \* the form, results view and getResults given to the constructor
    initialized,              \* initialize() has returned without throwing
    rendered,                 \* this.isRendered()
    prepareResults,           \* options.prepareResults: "null" or a function
    lastSearchCriteria,       \* this._lastSearchCriteria
    rejectLastSearchRequest,  \* this._rejectLastSearchRequest: 0 is null, else the request it rejects
    requests,                 \* the requests issued, in order; one awaiting flow each
    microtasks,               \* queued continuations, oldest first
    draining,                 \* the microtask queue is being drained
    results,                  \* this._resultsView.collection
    hideResultsList,          \* CSS.HIDE_RESULTS_LIST is on this.$el
    popupVisible,             \* the popup of getPopup() is shown
    errors,                   \* this._formView.model.getErrors()
    lastTrigger,              \* history: criteria of the last trigger, the request it issued (0: none)
    allDiffer,                \* history: every trigger's criteria differed from the one before
    resultsSrc                \* history: the request whose flow last reset the collection (0: none)

vars == <<options, initialized, rendered, prepareResults, lastSearchCriteria,
          rejectLastSearchRequest,
          requests, microtasks, draining, results, hideResultsList, popupVisible,
          errors, lastTrigger, allDiffer, resultsSrc>>

\* A criteria object is the set of its key/value pairs; _.isEqual is equality.
EmptyCriteria == {}
CriteriaOf(v) == {<<"FirstName", v>>}

RequestIds == 1..Len(requests)

----------------------------------------------------------------------------
\* Pure parts of the code.

\* lines 416-420
prepareDataForResultsView(data) ==
    IF prepareResults = "null" THEN data
    ELSE SelectSeq(data, LAMBDA row : row # "x")

\* a collapse rule that never adds the class
collapsedNever(collection) == FALSE

\* lines 263-271: the class is added iff the collection has no length
collapsedFor(collection) == Len(collection) = 0

\* a popup rule that looks only at whether there is a result value
popupShownUndefinedOnly(defined, rows) == ~defined

\* lines 233-238: show() when there are no results, hide() otherwise
popupShownFor(defined, rows) == (~defined) \/ Len(rows) = 0

\* a removal that removes nothing
removeModelsOfGroupKeepsAll(errs, group) == errs

\* line 335
removeModelsOfGroup(errs, group) == SelectSeq(errs, LAMBDA e : e.group # group)

\* lines 332-336: the catch handler of _loadSearchResultsIntoTable
fetchErrorRecorded(errs, message) ==
    Append(removeModelsOfGroup(errs, FetchErrorGroup),
           [group |-> FetchErrorGroup, message |-> message])

\* criteria that take an empty field for no criteria at all
searchCriteriaEmptyFieldIsNone(v) ==
    IF rendered /\ v # "" THEN CriteriaOf(v) ELSE EmptyCriteria

\* an add in place of the reset: the old rows stay
collectionAdd(collection, rows) == collection \o rows

\* line 344: collection.reset(preparedResults) replaces every row
collectionReset(collection, rows) == rows

\* lines 307-310
searchCriteriaFor(v) == IF rendered THEN CriteriaOf(v) ELSE EmptyCriteria

\* line 312
criteriaChanged(searchCriteria) == searchCriteria # lastSearchCriteria

----------------------------------------------------------------------------
\* The kinds of value the constructor may be given for the options it checks
\* ("View" stands for an instance of Marionette.View or of CollectionView).
Options ==
    [form : {"GenericForm", "Object"},
     resultsView : {"View", "Object"},
     collection : {"Collection", "undefined"},
     getResults : {"string", "function", "number"}]

\* a well-formed configuration
ValidOptions ==
    [form |-> "GenericForm", resultsView |-> "View", collection |-> "Collection",
     getResults |-> "function"]

\* asserts that forget the check of getResults
assertsPassWithoutGetResults(o) ==
    /\ o.form = "GenericForm"
    /\ o.resultsView = "View"
    /\ o.collection = "Collection"

\* lines 52-55: the four asserts of initialize
assertsPass(o) ==
    /\ o.form = "GenericForm"
    /\ o.resultsView = "View"
    /\ o.collection = "Collection"
    /\ o.getResults \in {"string", "function"}

\* every handler belongs to a constructed component: the subscriptions are made
\* at lines 77-87, after the asserts
constructed == initialized /\ UNCHANGED <<options, initialized>>

\* lines 51-94: the state initialize leaves, with a well-formed configuration
Init ==
    /\ options = ValidOptions
    /\ initialized = assertsPass(options)
    /\ rendered = FALSE
    /\ prepareResults \in {"null", "dropX"}
    /\ lastSearchCriteria = EmptyCriteria
    /\ rejectLastSearchRequest = 0
    /\ requests = << >>
    /\ microtasks = << >>
    /\ draining = FALSE
    /\ results \in {<< >>, <<"y">>}
    /\ hideResultsList = collapsedFor(results)
    /\ popupVisible = FALSE
    /\ errors = <<OtherError>>
    /\ lastTrigger = [criteria |-> EmptyCriteria, req |-> 0]
    /\ allDiffer = TRUE
    /\ resultsSrc = 0

\* lines 119-139
onRender ==
    /\ constructed
    /\ ~rendered
    /\ microtasks = << >>
    /\ rendered' = TRUE
    /\ UNCHANGED <<prepareResults, lastSearchCriteria, rejectLastSearchRequest,
                   requests, microtasks, draining, results, hideResultsList,
                   popupVisible, errors, lastTrigger, allDiffer, resultsSrc>>

----------------------------------------------------------------------------
\* The search trigger: clear, submit or blur of the search input (line 87).

\* line 363: the promise of a request just issued, its flow awaiting it (line 340)
newRequest(criteria) ==
    [criteria |-> criteria, promise |-> "pending", data |-> << >>,
     message |-> "", fetchDone |-> FALSE, flow |-> "await"]

\* lines 359-361: a saved rejection function is called; it rejects the promise of
\* the request that saved it (lines 365-368), which has an effect only while that
\* promise is pending
cancels(prior) == prior # 0 /\ requests[prior].promise = "pending"

afterCancel(prior) ==
    IF cancels(prior)
    THEN [requests EXCEPT ![prior].promise = "rejected",
                          ![prior].message = CancelMessage]
    ELSE requests

\* lines 357-382, called from line 329 through lines 313 and 220: the part of the
\* trigger that runs before the first await gives the control back
fetchResultsSingle(searchCriteria) ==
    LET prior == rejectLastSearchRequest
        id == Len(requests) + 1
    IN  /\ Len(requests) < MaxRequests
        /\ cancels(prior) => Len(microtasks) < MaxMicrotasks
        /\ requests' = Append(afterCancel(prior), newRequest(searchCriteria))
        /\ microtasks' = IF cancels(prior) THEN Append(microtasks, prior)
                         ELSE microtasks
        /\ rejectLastSearchRequest' = id
        /\ lastTrigger' = [criteria |-> searchCriteria, req |-> id]

\* a skip that rejects the pending request before it compares the criteria
skipFetchCancels(searchCriteria) ==
    LET prior == rejectLastSearchRequest
    IN  /\ Len(microtasks) + 1 < MaxMicrotasks
        /\ microtasks' = IF cancels(prior) THEN microtasks \o <<prior, 0>>
                         ELSE Append(microtasks, 0)
        /\ requests' = afterCancel(prior)
        /\ rejectLastSearchRequest' = 0
        /\ lastTrigger' = [criteria |-> searchCriteria, req |-> 0]

\* lines 312-317 without a fetch: _refreshSearchResults resolves with undefined,
\* and the continuation of line 220 is queued (0 stands for it)
skipFetch(searchCriteria) ==
    /\ Len(microtasks) < MaxMicrotasks
    /\ microtasks' = Append(microtasks, 0)
    /\ lastTrigger' = [criteria |-> searchCriteria, req |-> 0]
    /\ UNCHANGED <<requests, rejectLastSearchRequest>>

\* lines 216-220 and 305-317: the handler of clear, submit and blur, to its await
togglePopupVisibility(v) ==
    /\ constructed
    /\ ~draining
    /\ LET searchCriteria == searchCriteriaFor(v)
       IN  /\ IF criteriaChanged(searchCriteria)
              THEN fetchResultsSingle(searchCriteria)
              ELSE skipFetch(searchCriteria)
           /\ allDiffer' = (allDiffer /\ searchCriteria # lastTrigger.criteria)
    /\ UNCHANGED <<rendered, prepareResults, lastSearchCriteria, draining, results,
                   hideResultsList, popupVisible, errors, resultsSrc>>

----------------------------------------------------------------------------
\* The underlying fetch of a request completes (a task of its own).

\* a promise that no completion settles
settlesNever(r) == FALSE

\* a promise that could be settled a second time
settlesAgain(r) == TRUE

\* lines 374, 378: resolve and reject settle the promise of line 363 only while
\* it is pending; a promise already rejected by the cancellation stays as it is
settles(r) == requests[r].promise = "pending"

\* lines 372-375: the slot is cleared, whichever request it belonged to, and the
\* promise is resolved, which has an effect only while it is pending
fetchResolved(r, data) ==
    /\ constructed
    /\ microtasks = << >>
    /\ r \in RequestIds
    /\ ~requests[r].fetchDone
    /\ rejectLastSearchRequest' = 0
    /\ IF settles(r)
       THEN /\ requests' = [requests EXCEPT ![r].fetchDone = TRUE,
                                            ![r].promise = "resolved",
                                            ![r].data = data]
            /\ microtasks' = <<r>>
            /\ draining' = TRUE
       ELSE /\ requests' = [requests EXCEPT ![r].fetchDone = TRUE]
            /\ UNCHANGED <<microtasks, draining>>
    /\ UNCHANGED <<rendered, prepareResults, lastSearchCriteria, results,
                   hideResultsList, popupVisible, errors, lastTrigger, allDiffer,
                   resultsSrc>>

\* lines 376-379
fetchRejected(r, message) ==
    /\ constructed
    /\ microtasks = << >>
    /\ r \in RequestIds
    /\ ~requests[r].fetchDone
    /\ rejectLastSearchRequest' = 0
    /\ IF settles(r)
       THEN /\ requests' = [requests EXCEPT ![r].fetchDone = TRUE,
                                            ![r].promise = "rejected",
                                            ![r].message = message]
            /\ microtasks' = <<r>>
            /\ draining' = TRUE
       ELSE /\ requests' = [requests EXCEPT ![r].fetchDone = TRUE]
            /\ UNCHANGED <<microtasks, draining>>
    /\ UNCHANGED <<rendered, prepareResults, lastSearchCriteria, results,
                   hideResultsList, popupVisible, errors, lastTrigger, allDiffer,
                   resultsSrc>>

----------------------------------------------------------------------------
\* The continuations, run from the microtask queue.

\* lines 232-239 after a skip: results is undefined
skipContinuation ==
    /\ constructed
    /\ microtasks # << >>
    /\ Head(microtasks) = 0
    /\ microtasks' = Tail(microtasks)
    /\ draining' = (Tail(microtasks) # << >>)
    /\ popupVisible' = popupShownFor(FALSE, << >>)
    /\ hideResultsList' = collapsedFor(results)
    /\ UNCHANGED <<rendered, prepareResults, lastSearchCriteria,
                   rejectLastSearchRequest, requests, results, errors, lastTrigger,
                   allDiffer, resultsSrc>>

\* lines 331-345, then 314-315, then 232-239: the promise of request r has
\* settled.  The catch handler of line 331 takes every rejection, the
\* cancellation included, and yields []; so the await of line 340 never throws
\* and the catch of lines 224-230 is never entered.
settleContinuation ==
    /\ constructed
    /\ microtasks # << >>
    /\ Head(microtasks) # 0
    /\ LET r == Head(microtasks)
           caught == requests[r].promise = "rejected"
           fetched == IF caught THEN << >> ELSE requests[r].data
           preparedResults == prepareDataForResultsView(fetched)
       IN  /\ errors' = IF caught
                        THEN fetchErrorRecorded(errors, requests[r].message)
                        ELSE errors
           /\ results' = collectionReset(results, preparedResults)
           /\ hideResultsList' = collapsedFor(results')
           /\ lastSearchCriteria' = requests[r].criteria
           /\ popupVisible' = popupShownFor(TRUE, preparedResults)
           /\ requests' = [requests EXCEPT ![r].flow = "done"]
           /\ resultsSrc' = r
    /\ microtasks' = Tail(microtasks)
    /\ draining' = (Tail(microtasks) # << >>)
    /\ UNCHANGED <<rendered, prepareResults, rejectLastSearchRequest, lastTrigger,
                   allDiffer>>

----------------------------------------------------------------------------
\* Events from outside the search flow.

\* lines 77-81: the collection is reset or updated by its owner, and the listener
\* recomputes the collapse state
collectionChanged(rows) ==
    /\ constructed
    /\ microtasks = << >>
    /\ rows # results
    /\ results' = rows
    /\ hideResultsList' = collapsedFor(rows)
    /\ UNCHANGED <<rendered, prepareResults, lastSearchCriteria,
                   rejectLastSearchRequest, requests, microtasks, draining,
                   popupVisible, errors, lastTrigger, allDiffer, resultsSrc>>

\* lines 130-132: a click on the error view hides the popup
errorViewClick ==
    /\ constructed
    /\ rendered
    /\ microtasks = << >>
    /\ popupVisible
    /\ popupVisible' = FALSE
    /\ UNCHANGED <<rendered, prepareResults, lastSearchCriteria,
                   rejectLastSearchRequest, requests, microtasks, draining, results,
                   hideResultsList, errors, lastTrigger, allDiffer, resultsSrc>>

Next ==
    \/ onRender
    \/ \E v \in Values : togglePopupVisibility(v)
    \/ \E r \in RequestIds, data \in Data : fetchResolved(r, data)
    \/ \E r \in RequestIds, message \in Messages : fetchRejected(r, message)
    \/ skipContinuation
    \/ settleContinuation
    \/ \E rows \in Data : collectionChanged(rows)
    \/ errorViewClick

Spec == Init /\ [][Next]_vars

\* lines 51-94: initialize with any configuration; with a malformed one an assert
\* throws before line 62, so no field is set, no listener is added and line 89
\* does not run
InitConstruct ==
    /\ options \in Options
    /\ initialized = assertsPass(options)
    /\ rendered = FALSE
    /\ prepareResults = "null"
    /\ lastSearchCriteria = EmptyCriteria
    /\ rejectLastSearchRequest = 0
    /\ requests = << >>
    /\ microtasks = << >>
    /\ draining = FALSE
    /\ results \in {<< >>, <<"y">>}
    /\ hideResultsList = (initialized /\ collapsedFor(results))
    /\ popupVisible = FALSE
    /\ errors = <<OtherError>>
    /\ lastTrigger = [criteria |-> EmptyCriteria, req |-> 0]
    /\ allDiffer = TRUE
    /\ resultsSrc = 0

SpecConstruct == InitConstruct /\ [][Next]_vars

\* The fetch of request r resolves or rejects (the callbacks of line 371).
fetchCompletes(r) ==
    \/ \E data \in Data : fetchResolved(r, data)
    \/ \E message \in Messages : fetchRejected(r, message)

\* The event loop runs every queued continuation, and every fetch is taken to
\* complete in the end: the code itself sets no timeout (lines 363-381).
Fairness ==
    /\ WF_vars(skipContinuation)
    /\ WF_vars(settleContinuation)
    /\ \A r \in 1..MaxRequests : WF_vars(fetchCompletes(r))

\* lines 51-94: the state initialize leaves, without a prepareResults (the
\* transform has no part in whether a flow ends)
InitFair == Init /\ prepareResults = "null"

FairSpec == InitFair /\ [][Next]_vars /\ Fairness

----------------------------------------------------------------------------
\* Vocabulary of the properties.

\* the entries of the fetch-error group
FetchErrors(errs) == SelectSeq(errs, LAMBDA e : e.group = FetchErrorGroup)

\* this step is the continuation of request r's flow
SettleStep(r) ==
    /\ microtasks # << >>
    /\ Head(microtasks) = r
    /\ requests[r].flow = "await"
    /\ requests'[r].flow = "done"

\* this step is the continuation of a trigger that skipped the fetch
SkipStep ==
    /\ microtasks # << >>
    /\ Head(microtasks) = 0
    /\ microtasks' = Tail(microtasks)

Cancelled(r) ==
    requests[r].promise = "rejected" /\ requests[r].message = CancelMessage

Failed(r) ==
    requests[r].promise = "rejected" /\ requests[r].message # CancelMessage

Succeeded(r) == requests[r].promise = "resolved"

\* every fetch has completed and every continuation has run
Settled ==
    /\ microtasks = << >>
    /\ \A r \in RequestIds : requests[r].fetchDone /\ requests[r].flow = "done"

----------------------------------------------------------------------------
\* C1: for every sequence of rendered triggers whose consecutive criteria differ
\* and every completion order, once everything has settled the results collection
\* was last reset by the flow of the last trigger; and no flow resets the
\* collection after the flow of a newer request has.
C1_LastTriggerWins ==
    /\ (Settled /\ allDiffer /\ lastTrigger.criteria # EmptyCriteria)
          => (lastTrigger.req # 0 /\ resultsSrc = lastTrigger.req)
    /\ \A r \in RequestIds : requests[r].flow = "done" => resultsSrc >= r

\* C2: the continuation of a request cancelled by a newer search changes neither
\* the results collection, nor the popup, nor the collapse class, nor the form's
\* error list.
C2_CancelledIsSilent ==
    [][\A r \in RequestIds :
          (SettleStep(r) /\ Cancelled(r))
             => UNCHANGED <<results, popupVisible, hideResultsList, errors>>]_vars

\* C3: at most one issued request is pending without having been cancelled.
C3_SingleFlight ==
    Cardinality({r \in RequestIds : requests[r].promise = "pending"}) <= 1

\* C4: a trigger whose criteria equal those of the trigger before it issues no
\* fetch when that one issued a fetch, whether or not that fetch is still pending.
C4_EqualCriteriaOneFetch ==
    [][Len(requests') > Len(requests)
          => ~(lastTrigger.req # 0 /\ lastTrigger'.criteria = lastTrigger.criteria)]_vars

\* C5: a rendered trigger whose criteria equal lastCriteria issues no fetch, and its
\* continuation leaves the popup's visibility as it was.
C5_SkipKeepsPopup ==
    [][/\ (rendered /\ microtasks' = Append(microtasks, 0)) => requests' = requests
       /\ (rendered /\ SkipStep) => popupVisible' = popupVisible]_vars

C7_SuccessClearsError ==
    [][\A r \in RequestIds :
          (/\ SettleStep(r) /\ Succeeded(r)
           /\ \A i \in 1..Len(errors) : errors[i].message # CancelMessage)
             => FetchErrors(errors') = << >>]_vars

\* C8: after the fetch of a trigger has failed with another error than the
\* cancellation, the next trigger with the same criteria issues a fetch.
C8_RetriggerRetries ==
    [][\A p \in RequestIds :
          (/\ lastTrigger.req = p
           /\ Failed(p) /\ requests[p].flow = "done"
           /\ lastTrigger' # lastTrigger
           /\ lastTrigger'.criteria = requests[p].criteria)
             => lastTrigger'.req # 0]_vars

\* C9: when the flow of a successful fetch completes, the collection holds the
\* transformed rows and the popup is shown iff there are none.
C9_PopupIffEmpty ==
    [][\A r \in RequestIds :
          (SettleStep(r) /\ Succeeded(r))
             => /\ results' = prepareDataForResultsView(requests[r].data)
                /\ popupVisible' = (Len(results') = 0)]_vars

\* a fetch delivered rows, the transform left none, and the popup is shown
C9_Witness ==
    \E r \in RequestIds :
        /\ Succeeded(r) /\ requests[r].flow = "done"
        /\ resultsSrc = r
        /\ requests[r].data # << >>
        /\ results = << >>
        /\ popupVisible

\* C10: the hide-results class is on the root element iff the results collection
\* is empty.
C10_CollapseIffEmpty == hideResultsList <=> (Len(results) = 0)

\* a search has filled the collection and the class is off
C10_Witness ==
    /\ resultsSrc # 0
    /\ results # << >>
    /\ ~hideResultsList

----------------------------------------------------------------------------
\* this step is a trigger: it issues a request or queues the skip's continuation
TriggerStep ==
    \/ Len(requests') > Len(requests)
    \/ microtasks' = Append(microtasks, 0)

\* C11 as stated: with lastCriteria = {}, a trigger while the component is
\* unrendered or while the input field is empty issues no fetch, and a rendered
\* trigger with a non-empty value issues exactly one fetch.
C11_EmptyFieldNoFetch ==
    [][(TriggerStep /\ lastSearchCriteria = EmptyCriteria)
          => IF lastTrigger'.criteria \in {EmptyCriteria, CriteriaOf("")}
             THEN requests' = requests
             ELSE Len(requests') = Len(requests) + 1]_vars

\* C11 as the code has it: with lastCriteria = {}, a trigger while the component
\* is unrendered issues no fetch, and every rendered trigger, the one with an
\* empty field included, issues exactly one fetch, for {FirstName: value}.
C11_UnrenderedNoFetch ==
    [][(TriggerStep /\ lastSearchCriteria = EmptyCriteria)
          => IF rendered
             THEN /\ Len(requests') = Len(requests) + 1
                  /\ lastTrigger'.criteria # EmptyCriteria
                  /\ requests'[Len(requests')].criteria = lastTrigger'.criteria
                  /\ requests'[Len(requests')].promise = "pending"
             ELSE /\ requests' = requests
                  /\ lastTrigger'.criteria = EmptyCriteria]_vars

\* an unrendered trigger was skipped, and after the render the trigger with the
\* value "a" has issued the first fetch
C11_Witness ==
    /\ rendered
    /\ ~allDiffer
    /\ Len(requests) = 1
    /\ requests[1].criteria = CriteriaOf("a")
    /\ lastTrigger.req = 1
    /\ lastSearchCriteria = EmptyCriteria

----------------------------------------------------------------------------
\* the configuration is malformed, in the words of the claim
Malformed(o) ==
    \/ o.form # "GenericForm"
    \/ o.resultsView # "View"
    \/ o.collection # "Collection"
    \/ o.getResults \notin {"string", "function"}

\* C12: with a malformed configuration the construction fails: the component is
\* never initialised, never rendered, never gets the collapse class or a shown
\* popup, and no trigger, fetch or continuation ever happens.
C12_MalformedFailsFast ==
    Malformed(options)
       => /\ ~initialized
          /\ ~rendered
          /\ ~hideResultsList
          /\ ~popupVisible
          /\ rejectLastSearchRequest = 0
          /\ requests = << >>
          /\ microtasks = << >>
          /\ lastTrigger.criteria = EmptyCriteria
          /\ ~ENABLED Next

\* a construction that failed on getResults alone
C12_Witness ==
    /\ options = [ValidOptions EXCEPT !.getResults = "number"]
    /\ ~initialized

----------------------------------------------------------------------------
\* C13: lastCriteria is the initial empty mapping or the criteria of a fetch that
\* completed successfully, never those of a request that failed or was cancelled.
C13_LastCriteriaSucceeded ==
    \/ lastSearchCriteria = EmptyCriteria
    \/ \E r \in RequestIds :
          /\ Succeeded(r)
          /\ requests[r].flow = "done"
          /\ requests[r].criteria = lastSearchCriteria

\* C14: the slot is non-null exactly when a request is in flight that has not been
\* cancelled, and then it rejects the request issued last; so the late completion
\* of a superseded request's fetch leaves the slot of the pending request alone.
C14_SlotTracksPending ==
    /\ (rejectLastSearchRequest # 0)
          <=> (\E r \in RequestIds : requests[r].promise = "pending")
    /\ rejectLastSearchRequest # 0 => rejectLastSearchRequest = Len(requests)

----------------------------------------------------------------------------
\* the caller's transform, in the words of the claim: prepareResults, or the
\* identity when none is given
Transformed(data) ==
    IF prepareResults = "null" THEN data
    ELSE SelectSeq(data, LAMBDA row : row # "x")

\* C15: when the flow of a successful fetch completes, the collection holds the
\* transformed raw data and nothing else, whatever it held before, and the popup
\* is shown iff that transformed set is empty.
C15_ResetWholesale ==
    [][\A r \in RequestIds :
          (SettleStep(r) /\ Succeeded(r))
             => /\ results' = Transformed(requests[r].data)
                /\ prepareResults = "null" => results' = requests[r].data
                /\ popupVisible' = (Transformed(requests[r].data) = << >>)]_vars

\* a successful fetch has replaced the rows of an earlier one
C15_Witness ==
    \E r1, r2 \in RequestIds :
        /\ r1 < r2
        /\ Succeeded(r1) /\ requests[r1].flow = "done"
        /\ Succeeded(r2) /\ requests[r2].flow = "done"
        /\ requests[r1].data = <<"y">>
        /\ requests[r2].data = <<"x">>
        /\ prepareResults = "null"
        /\ resultsSrc = r2
        /\ results = <<"x">>

----------------------------------------------------------------------------
\* this step is a trigger that skipped the fetch
SkipTriggerStep ==
    /\ Len(microtasks') > Len(microtasks)
    /\ microtasks'[Len(microtasks')] = 0

\* C16: a trigger whose criteria equal lastCriteria, and its continuation, leave
\* the results collection, lastCriteria, the form's error list, the slot and
\* every request, the one in flight included, as they were.
C16_SkipFrame ==
    [][(SkipTriggerStep \/ SkipStep)
          => UNCHANGED <<results, lastSearchCriteria, errors,
                         rejectLastSearchRequest, requests>>]_vars

\* a rendered trigger was skipped while a request is in flight, and its
\* continuation has run
C16_Witness ==
    /\ rendered
    /\ lastTrigger.req = 0
    /\ lastTrigger.criteria # EmptyCriteria
    /\ microtasks = << >>
    /\ \E r \in RequestIds :
          requests[r].promise = "pending" /\ rejectLastSearchRequest = r

----------------------------------------------------------------------------
\* this step is the completion of the fetch of request r, cancelled before
LateCompletion(r) ==
    /\ Cancelled(r)
    /\ ~requests[r].fetchDone
    /\ requests'[r].fetchDone

\* C17: when the fetch of a request that was already cancelled resolves or
\* rejects, the results collection, lastCriteria, the form's error list and the
\* popup stay as they are, the request stays cancelled, and no continuation is
\* queued that could change them later.
C17_LateCompletionFrame ==
    [][\A r \in RequestIds :
          LateCompletion(r)
             => /\ UNCHANGED <<results, lastSearchCriteria, errors, popupVisible,
                               hideResultsList, microtasks>>
                /\ requests'[r].promise = "rejected"
                /\ requests'[r].message = CancelMessage]_vars

\* the fetch of a cancelled request has completed
C17_Witness ==
    \E r \in RequestIds :
        /\ Cancelled(r)
        /\ requests[r].fetchDone
        /\ requests[r].flow = "done"
        /\ microtasks = << >>

----------------------------------------------------------------------------
\* C18: if the triggers stop and every fetch completes in the end, then from
\* some time on no flow is pending, every fetch has completed and the slot is
\* null; and a pending request stops being pending only through the completion
\* of its own fetch or through the cancellation by a newer request, its flow
\* awaiting it until then: there is no timeout.
C18_SettlesOrPendsForever ==
    /\ (<>[][~TriggerStep]_vars) => <>[](Settled /\ rejectLastSearchRequest = 0)
    /\ [][\A r \in RequestIds :
             requests[r].promise = "pending"
                => /\ requests[r].flow = "await"
                   /\ requests'[r].promise # "pending"
                         => \/ ~requests[r].fetchDone /\ requests'[r].fetchDone
                            \/ /\ Len(requests') > Len(requests)
                               /\ requests'[r].message = CancelMessage]_vars

\* everything has settled after a skipped trigger, a cancelled request and a
\* successful one
C18_Witness ==
    /\ Settled
    /\ rejectLastSearchRequest = 0
    /\ lastTrigger.req = 0
    /\ \E r1, r2 \in RequestIds : Cancelled(r1) /\ Succeeded(r2)

====
